---- MODULE Spec2Model ----
(***************************************************************************)
(* Model of bin/sync_nodes.py: a sequential script that loads a YAML       *)
(* settings document, checks for the ssh and rsync binaries, and then      *)
(* walks nodes -> folders -> services, running one external command per    *)
(* step.  The state is the script's globals (config, bin_path, the logging *)
(* flags), its position in the script (pc and the three loop indexes), the *)
(* process exit status, and what the script did to the outside world: the  *)
(* commands it ran over the whole run, the state each node reached, and,   *)
(* for the current iteration of the node loop, every command with its      *)
(* outcome, every sleep, log call and print, in order.                     *)
(***************************************************************************)
EXTENDS Integers, Sequences, FiniteSets, TLC

(***************************************************************************)
(* Bounds of the model.                                                    *)
(***************************************************************************)
NumNodes == 2
NumFolders == 2
NumServices == 2
MaxOpts == 3

(***************************************************************************)
(* Program constants.                                                      *)
(***************************************************************************)
DefaultSshPort == 22
DefaultSleep == 1
ExitOk == 0
ExitFatal == 1

VARIABLES
    opts,           \* sys.argv options after getopt, in command-line order
    settings_file,  \* what is on disk at setting_file: exists?, parsed document
    which,          \* what shutil.which finds for ssh and rsync
    log_level,      \* level handed to logging.basicConfig
    debug, foreground, quiet,
    config,         \* the parsed settings document, mutated by defaulting
    bin_path,       \* resolved paths of the binaries
    logging_ready,  \* logging.basicConfig has run
    pc,             \* position in the script
    id_n, id_f, id_s,   \* positions of the three loops
    exit_code,      \* process exit status, NoExit while running
    exc,            \* uncaught exception that ended the process, "" if none
    commands,       \* every command run so far: <<kind, node, item>>, in order
    argv,           \* what each of them was built from, in the same order
    probe_result,   \* per node: "none", or how its probe ended: "ok", "failed"
    node_state,     \* per node: PENDING, SKIPPED, REACHABLE or DONE
    trace           \* commands with outcomes, sleeps, log calls and prints of
                    \* the current iteration of the node loop (before the
                    \* first iteration: of start-up), in order

vars == <<opts, settings_file, which, log_level, debug, foreground, quiet,
          config, bin_path, logging_ready, pc, id_n, id_f, id_s, exit_code,
          exc, commands, argv, probe_result, node_state, trace>>

NoExit == -1
NoneVal == "<None>"
CurrentUser == "osuser"

NodeIds == 1..NumNodes
FolderIds == 1..NumFolders
ServiceIds == 1..NumServices

\* list(d.keys()) / d.items() of a mapping whose keys are 1..n, in
\* insertion order.
keys(n) == [i \in 1..n |-> i]

InSeq(x, s) == \E i \in 1..Len(s) : s[i] = x

(***************************************************************************)
(* Option parsing, lines 67-90 (the -c and -h options are not drawn).      *)
(***************************************************************************)
DefaultFlags == [log_level |-> "INFO", debug |-> FALSE,
                 foreground |-> FALSE, quiet |-> FALSE]

ApplyOpt(fl, opt) ==
    LET a == IF opt = "d" THEN [fl EXCEPT !.log_level = "DEBUG", !.debug = TRUE]
             ELSE fl
        b == IF opt = "f" THEN [a EXCEPT !.foreground = TRUE] ELSE a
        c == IF opt = "q" THEN [b EXCEPT !.log_level = "ERROR", !.quiet = TRUE]
             ELSE b
    IN c

RECURSIVE ParseOpts(_, _)
ParseOpts(fl, os) ==
    IF os = <<>> THEN fl ELSE ParseOpts(ApplyOpt(fl, Head(os)), Tail(os))

(***************************************************************************)
(* Logging, lines 93-112 and 129.                                          *)
(***************************************************************************)
LevelNo(l) == CASE l \in {"debug", "DEBUG"} -> 10
                [] l \in {"info", "INFO"} -> 20
                [] OTHER -> 40

\* Variant of Recorded: a log file that keeps every record.
Recorded_Always(level, threshold) == TRUE

\* The logging module keeps a record iff its level reaches the level given
\* to basicConfig.
Recorded(level, threshold) == LevelNo(level) >= LevelNo(threshold)

\* Variant of Echoed: -q is ignored.
Echoed_NotQuiet(dbg, fg, qt, level) ==
    fg /\ (level \in {"info", "error"} \/ dbg)

\* mylog's console echo.
Echoed(dbg, fg, qt, level) ==
    IF ~fg THEN FALSE
    ELSE IF level = "info" THEN ~qt
    ELSE IF level = "error" THEN TRUE
    ELSE dbg

Event(t, k, n, i, res, lvl, file, con) ==
    [t |-> t, k |-> k, n |-> n, i |-> i, res |-> res, lvl |-> lvl,
     file |-> file, con |-> con]

\* mylog(debug, foreground, quiet, level, message): the message is named by
\* its kind k and the node and item it mentions.
mylog(dbg, fg, qt, level, k, n, i) ==
    Event("log", k, n, i, "", level, Recorded(level, log_level),
          Echoed(dbg, fg, qt, level))

\* Variant of Log: every message goes out at error level.
Log_AsError(level, k, n, i) == mylog(debug, foreground, quiet, "error", k, n, i)

Log(level, k, n, i) == mylog(debug, foreground, quiet, level, k, n, i)

Stdout(k) == Event("print", k, 0, 0, "", "", FALSE, TRUE)

\* subprocess.run of one command, with its outcome.
Run(k, n, i, res) == Event("cmd", k, n, i, res, "", FALSE, FALSE)

\* time.sleep(secs) in the loop named k.
SleepEv(k, n, secs) == Event("sleep", k, n, secs, "", "", FALSE, FALSE)

\* What subprocess.run can do: return with exit status 0, raise
\* CalledProcessError (non-zero exit under check=True), or raise another
\* exception because the command could not be run to completion at all.
Outcomes == {"ok", "nonzero", "oserror"}

(***************************************************************************)
(* The settings document.  A mapping with optional keys is a record with   *)
(* a field `has`, the set of the optional keys that are present; the value *)
(* of an absent key is never read.                                         *)
(***************************************************************************)
Selector(kind, items) == [kind |-> kind, items |-> items]

\* Shapes of a node's `folders` value: the literal "all", a scalar that
\* is not "all", null, and lists: empty, in reverse configuration order,
\* and one with an id that is not a configured folder.
SelectorChoices ==
    { Selector("all", <<>>), Selector("scalar", <<>>), Selector("null", <<>>),
      Selector("list", <<>>),
      Selector("list", <<NumFolders, 1>>),
      Selector("list", <<NumFolders + 1, NumFolders>>) }

NodeDef(id, optional, present, sel) ==
    [has |-> optional \cup (IF present THEN {"folders"} ELSE {}),
     address |-> id, port |-> 2200 + id, user |-> "admin", sel |-> sel]

\* Odd nodes leave ssh-port and user out, even ones set both.
NodeOptional(id) == IF id % 2 = 1 THEN {} ELSE {"ssh-port", "user"}

NodeChoices(id) ==
    { NodeDef(id, NodeOptional(id), TRUE, s) : s \in SelectorChoices }
    \cup { NodeDef(id, NodeOptional(id), FALSE, Selector("scalar", <<>>)) }

\* Folder 1 has neither dest nor rsync-options, folder 2 has both (the
\* options null), later folders have options only.
FolderDef(id) ==
    [has |-> IF id = 1 THEN {}
             ELSE IF id = 2 THEN {"dest", "rsync-options"}
             ELSE {"rsync-options"},
     path |-> <<"src", id>>, dest |-> <<"dst", id>>,
     opts |-> IF id = 2 THEN NoneVal ELSE "--delete"]

\* Odd services have no sudo key, even ones have sudo: true.
ServiceDef(id) ==
    [has |-> IF id % 2 = 0 THEN {"sudo"} ELSE {},
     name |-> <<"unit", id>>,
     method |-> IF id % 2 = 0 THEN "reload" ELSE "restart",
     sudo |-> TRUE]

Document(has, nodes_null, enable, nodes) ==
    [has |-> has, blank |-> {"log_file"}, nodes_null |-> nodes_null,
     log_file |-> "", sleep_folders |-> 3, sleep_services |-> 0,
     enable |-> enable, nodes |-> nodes,
     folders |-> [f \in FolderIds |-> FolderDef(f)],
     services |-> [s \in ServiceIds |-> ServiceDef(s)]]

TopKeys == {"nodes", "log_file", "sleep-time-folders"}

NoNodes == [n \in {} |-> 0]

BaseDocument == Document(TopKeys, FALSE, TRUE, NoNodes)

DocumentChoices ==
    { Document(TopKeys, FALSE, e, ns) :
          e \in BOOLEAN,
          ns \in { m \in [NodeIds -> UNION {NodeChoices(n) : n \in NodeIds}] :
                      \A n \in NodeIds : m[n].address = n } }
    \cup { Document(TopKeys, TRUE, TRUE, NoNodes),
           Document(TopKeys \ {"nodes"}, FALSE, TRUE, NoNodes),
           BaseDocument }

OptChoices == { <<>>, <<"f", "d">> }

(***************************************************************************)
(* The state after the interpreter has run lines 42-90: options parsed,    *)
(* nothing loaded yet.                                                     *)
(***************************************************************************)
Init ==
    /\ opts \in OptChoices
    /\ settings_file \in
          { [exists |-> FALSE, doc_none |-> FALSE, doc |-> BaseDocument],
            [exists |-> TRUE, doc_none |-> TRUE, doc |-> BaseDocument] }
          \cup { [exists |-> TRUE, doc_none |-> FALSE, doc |-> d] :
                     d \in DocumentChoices }
    /\ which \in [{"ssh", "rsync"} -> BOOLEAN]
    /\ log_level = ParseOpts(DefaultFlags, opts).log_level
    /\ debug = ParseOpts(DefaultFlags, opts).debug
    /\ foreground = ParseOpts(DefaultFlags, opts).foreground
    /\ quiet = ParseOpts(DefaultFlags, opts).quiet
    /\ config = BaseDocument
    /\ bin_path = [ssh |-> <<NoneVal>>, rsync |-> <<NoneVal>>]
    /\ logging_ready = FALSE
    /\ pc = "load"
    /\ id_n = 0 /\ id_f = 0 /\ id_s = 0
    /\ exit_code = NoExit
    /\ exc = ""
    /\ commands = <<>>
    /\ argv = <<>>
    /\ probe_result = [n \in NodeIds |-> "none"]
    /\ node_state = [n \in NodeIds |-> "PENDING"]
    /\ trace = <<>>

Emit(events) == trace' = trace \o events

\* exit(status)
Exit(status) == pc' = "exited" /\ exit_code' = status /\ exc' = exc

\* An exception nobody catches: the interpreter prints a traceback and the
\* process ends with status 1.
Raise(e) == pc' = "exited" /\ exit_code' = ExitFatal /\ exc' = e

Running(at) == pc = at /\ exit_code = NoExit

(***************************************************************************)
(* Lines 114-123: load settings from file.                                 *)
(***************************************************************************)
LoadSettings ==
    /\ Running("load")
    /\ IF ~settings_file.exists
          THEN /\ Emit(<<Stdout("settings_missing")>>)
               /\ Exit(ExitFatal)
               /\ UNCHANGED config
          ELSE IF settings_file.doc_none
          THEN /\ Emit(<<Stdout("settings_wrong")>>)
               /\ Exit(ExitFatal)
               /\ UNCHANGED config
          ELSE /\ config' = settings_file.doc
               /\ pc' = "logsetup"
               /\ UNCHANGED <<trace, exit_code, exc>>
    /\ UNCHANGED <<opts, settings_file, which, log_level, debug, foreground,
                   quiet, bin_path, logging_ready, id_n, id_f, id_s,
                   commands, argv, probe_result, node_state>>

\* `"k" not in config or config["k"] == ''`
Unset(c, k) == k \notin c.has \/ k \in c.blank

(***************************************************************************)
(* Lines 125-138: log settings, first two log calls, sleep settings.       *)
(***************************************************************************)
LogSettings ==
    /\ Running("logsetup")
    /\ logging_ready' = TRUE
    /\ Emit(<<Log("info", "separator", 0, 0),
              Log("debug", "settings_loaded", 0, 0)>>)
    /\ config' =
          [config EXCEPT
             !.has = @ \cup {"log_file", "sleep-time-folders",
                             "sleep-time-services"},
             !.blank = @ \ {"log_file", "sleep-time-folders",
                            "sleep-time-services"},
             !.log_file = IF Unset(config, "log_file")
                            THEN "sync_nodes.log" ELSE @,
             !.sleep_folders = IF Unset(config, "sleep-time-folders")
                                 THEN DefaultSleep ELSE @,
             !.sleep_services = IF Unset(config, "sleep-time-services")
                                  THEN DefaultSleep ELSE @]
    /\ pc' = "binaries"
    /\ UNCHANGED <<opts, settings_file, which, log_level, debug, foreground,
                   quiet, bin_path, id_n, id_f, id_s, exit_code, exc,
                   commands, argv, probe_result, node_state>>

\* shutil.which(name)
Which(name) == IF which[name] THEN <<"/usr/bin", name>> ELSE <<NoneVal>>

\* Variant of MissingBinary that looks at ssh alone.
MissingBinary_OnlySsh(bp) ==
    IF bp.ssh = <<NoneVal>> THEN "ssh" ELSE ""

\* First key of bin_path, in insertion order, whose value is None; "" if
\* none is.
MissingBinary(bp) ==
    IF bp.ssh = <<NoneVal>> THEN "ssh"
    ELSE IF bp.rsync = <<NoneVal>> THEN "rsync"
    ELSE ""

NotFoundMessage(key) ==
    IF key = "ssh" THEN "ssh_not_found" ELSE "rsync_not_found"

(***************************************************************************)
(* Lines 140-149: needed binaries.                                         *)
(***************************************************************************)
NeededBinaries ==
    /\ Running("binaries")
    /\ bin_path' = [ssh |-> Which("ssh"), rsync |-> Which("rsync")]
    /\ IF MissingBinary(bin_path') # ""
          THEN /\ Emit(<<Log("debug", "looking_for_binaries", 0, 0),
                         Log("error", NotFoundMessage(MissingBinary(bin_path')),
                             0, 0)>>)
               /\ Exit(ExitFatal)
          ELSE /\ Emit(<<Log("debug", "looking_for_binaries", 0, 0)>>)
               /\ pc' = "start"
               /\ UNCHANGED <<exit_code, exc>>
    /\ UNCHANGED <<opts, settings_file, which, log_level, debug, foreground,
                   quiet, config, logging_ready, id_n, id_f, id_s,
                   commands, argv, probe_result, node_state>>

NumConfigured(mapping) == Cardinality(DOMAIN mapping)

\* Variant of NextNode: the node whose body just ended is taken up again.
NextNode_Again(n) ==
    /\ id_n' = IF n = 0 THEN 1 ELSE n
    /\ id_f' = 0
    /\ id_s' = 0
    /\ pc' = "node"

\* Where the script is after the body of the node loop ends for node n
\* (by falling off its end or by `continue`).
NextNode(n) ==
    /\ id_n' = n + 1
    /\ id_f' = 0
    /\ id_s' = 0
    /\ pc' = IF n < NumConfigured(config.nodes) THEN "node" ELSE "end"

(***************************************************************************)
(* Lines 153-163: start of execution, the no-nodes exit, the counts.       *)
(***************************************************************************)
StartExecution ==
    /\ Running("start")
    /\ IF "nodes" \notin config.has
          THEN /\ Emit(<<Log("info", "start", 0, 0)>>)
               /\ Raise("KeyError")
               /\ UNCHANGED <<id_n, id_f, id_s>>
          ELSE IF config.nodes_null
          THEN /\ Emit(<<Log("info", "start", 0, 0),
                         Log("info", "no_nodes", 0, 0)>>)
               /\ Exit(ExitOk)
               /\ UNCHANGED <<id_n, id_f, id_s>>
          ELSE /\ Emit(<<Log("info", "start", 0, 0),
                         Log("debug", "loaded_nodes", 0,
                             NumConfigured(config.nodes)),
                         Log("debug", "loaded_folders", 0,
                             NumConfigured(config.folders))>>
                       \o (IF config.enable
                             THEN <<Log("debug", "loaded_services", 0,
                                        NumConfigured(config.services))>>
                             ELSE <<>>))
               /\ NextNode(0)
               /\ UNCHANGED <<exit_code, exc>>
    /\ UNCHANGED <<opts, settings_file, which, log_level, debug, foreground,
                   quiet, config, bin_path, logging_ready, commands, argv,
                   probe_result, node_state>>

\* Variant of NodeDefaults that sets port and user whether given or not.
NodeDefaults_Overwrite(node) ==
    [node EXCEPT
       !.has = @ \cup {"ssh-port", "user"},
       !.port = DefaultSshPort,
       !.user = CurrentUser]

\* Lines 167-171: node defaults.
NodeDefaults(node) ==
    [node EXCEPT
       !.has = @ \cup {"ssh-port", "user"},
       !.port = IF "ssh-port" \in node.has THEN @ ELSE DefaultSshPort,
       !.user = IF "user" \in node.has THEN @ ELSE CurrentUser]

\* Variant of ProbeSkips in which the except clause handles only a command
\* that could not be run.
ProbeSkips_OnlyLaunch(res) == res = "oserror"

\* Lines 176-180: the probe's try / bare except.  TRUE iff the except
\* clause runs (log, continue).
ProbeSkips(res) == res # "ok"

\* str() inside an f-string: None is written out as the word None.
Str(v) == IF v = NoneVal THEN "None" ELSE v

\* shlex.split of the rsync options inside the command line: an empty
\* string leaves no argument behind.
SplitOptions(text) == IF text = "" THEN <<>> ELSE <<text>>

\* Lines 175, 201 and 226: what the command line is built from, read from
\* the configuration c as it is when the line is built.
Command(kind, c, n, i) ==
    [bin |-> bin_path[IF kind = "rsync" THEN "rsync" ELSE "ssh"],
     port |-> c.nodes[n].port,
     user |-> c.nodes[n].user,
     address |-> c.nodes[n].address,
     opts |-> IF kind = "rsync" THEN SplitOptions(Str(c.folders[i].opts))
              ELSE <<>>,
     src |-> IF kind = "rsync" THEN c.folders[i].path ELSE <<>>,
     dest |-> IF kind = "rsync" THEN c.folders[i].dest ELSE <<>>,
     sudo |-> IF kind = "service" THEN c.services[i].sudo ELSE FALSE,
     method |-> IF kind = "service" THEN c.services[i].method ELSE "",
     name |-> IF kind = "service" THEN c.services[i].name ELSE <<>>]

Ran(kind, n, i) ==
    /\ commands' = Append(commands, <<kind, n, i>>)
    /\ argv' = Append(argv, Command(kind, config', n, i))

Reach(n, state) == node_state' = [node_state EXCEPT ![n] = state]

(***************************************************************************)
(* Lines 166-180: node defaults, connectivity probe.  A new iteration of   *)
(* the node loop begins: trace starts afresh.                              *)
(***************************************************************************)
NodeProbe ==
    /\ Running("node")
    /\ \E res \in Outcomes :
         /\ config' = [config EXCEPT !.nodes[id_n] = NodeDefaults(@)]
         /\ Ran("probe", id_n, 0)
         /\ probe_result' = [probe_result EXCEPT
                               ![id_n] = IF res = "ok" THEN "ok" ELSE "failed"]
         /\ IF ProbeSkips(res)
               THEN /\ trace' = <<Log("info", "connecting", id_n, 0),
                                  Run("probe", id_n, 0, res),
                                  Log("error", "connection_failed", id_n, 0)>>
                    /\ Reach(id_n, "SKIPPED")
                    /\ NextNode(id_n)
               ELSE /\ trace' = <<Log("info", "connecting", id_n, 0),
                                  Run("probe", id_n, 0, res)>>
                    /\ Reach(id_n, "REACHABLE")
                    /\ pc' = "select"
                    /\ UNCHANGED <<id_n, id_f, id_s>>
    /\ UNCHANGED <<opts, settings_file, which, log_level, debug, foreground,
                   quiet, bin_path, logging_ready, exit_code, exc>>

isinstance_list(sel) == sel.kind = "list"

\* Lines 182-188: which branch of the if / elif / else is taken.
SelectorBranch(sel) ==
    IF ~isinstance_list(sel) \/ sel.kind = "all" THEN "default"
    ELSE IF isinstance_list(sel) THEN "pass"
    ELSE "error"

\* Where the script is once the folder loop is exhausted (line 216).
AfterFolders ==
    IF config.enable /\ NumConfigured(config.services) > 0
      THEN /\ pc' = "services" /\ id_s' = 1 /\ id_f' = 0
           /\ UNCHANGED <<id_n, node_state>>
      ELSE NextNode(id_n) /\ Reach(id_n, "DONE")

(***************************************************************************)
(* Lines 182-188: resolution of the node's folder selector.                *)
(***************************************************************************)
FolderSelect ==
    /\ Running("select")
    /\ IF "folders" \notin config.nodes[id_n].has
          THEN /\ Raise("KeyError")
               /\ UNCHANGED <<config, trace, id_n, id_f, id_s, node_state>>
          ELSE /\ UNCHANGED <<exit_code, exc>>
               /\ CASE SelectorBranch(config.nodes[id_n].sel) = "default" ->
                        /\ config' = [config EXCEPT !.nodes[id_n].sel =
                              Selector("list",
                                       keys(NumConfigured(config.folders)))]
                        /\ pc' = "folders"
                        /\ id_f' = 1
                        /\ UNCHANGED <<trace, id_n, id_s, node_state>>
                    [] SelectorBranch(config.nodes[id_n].sel) = "pass" ->
                        /\ pc' = "folders"
                        /\ id_f' = 1
                        /\ UNCHANGED <<config, trace, id_n, id_s, node_state>>
                    [] OTHER ->
                        /\ Emit(<<Log("error", "wrong_folders", id_n, 0)>>)
                        /\ NextNode(id_n)
                        /\ Reach(id_n, "SKIPPED")
                        /\ UNCHANGED config
    /\ UNCHANGED <<opts, settings_file, which, log_level, debug, foreground,
                   quiet, bin_path, logging_ready, commands, argv,
                   probe_result>>

\* Lines 194-197: folder defaults.
FolderDefaults(folder) ==
    [folder EXCEPT
       !.has = @ \cup {"rsync-options", "dest"},
       !.opts = IF "rsync-options" \notin folder.has \/ folder.opts = NoneVal
                  THEN "" ELSE @,
       !.dest = IF "dest" \in folder.has THEN @ ELSE folder.path]

\* Variant of FolderSelected without the membership test.
FolderSelected_Any(f, node) == TRUE

\* Line 192: `id_f in node["folders"]`.
FolderSelected(f, node) == InSeq(f, node.sel.items)

\* `except subprocess.CalledProcessError` (lines 204 and 229): the only
\* exception of subprocess.run the two loops handle.
Caught(res) == res = "nonzero"

\* Lines 204-213: the sleep at the end of the folder loop's body is
\* reached only when the except clause, which ends in `continue`, did not
\* run.
FolderSleeps(res) == ~Caught(res)

\* Lines 229-238: the same for the service loop.
ServiceSleeps(res) == ~Caught(res)

\* Variant of NextItem: the iteration does not move on.
NextItem_Same(i) == i

\* `for id, item in mapping.items()` (lines 191 and 217): the item taken
\* after item i.
NextItem(i) == i + 1

FolderAdvance ==
    IF id_f < NumConfigured(config.folders)
      THEN id_f' = NextItem(id_f) /\ UNCHANGED <<pc, id_n, id_s, node_state>>
      ELSE AfterFolders

(***************************************************************************)
(* Lines 191-213: one iteration of the folder loop.                        *)
(***************************************************************************)
FolderStep ==
    /\ Running("folders")
    /\ IF ~FolderSelected(id_f, config.nodes[id_n])
          THEN /\ FolderAdvance
               /\ UNCHANGED <<config, trace, exit_code, exc, commands, argv>>
          ELSE \E res \in Outcomes :
            /\ config' = [config EXCEPT !.folders[id_f] = FolderDefaults(@)]
            /\ Ran("rsync", id_n, id_f)
            /\ IF res = "ok"
                  THEN /\ Emit(<<Log("info", "syncing", id_n, id_f),
                                 Run("rsync", id_n, id_f, res),
                                 Log("debug", "rsync_output", id_n, id_f),
                                 Log("info", "synced", id_n, id_f)>>
                               \o (IF FolderSleeps(res)
                                     THEN <<SleepEv("folders", id_n,
                                                    config.sleep_folders)>>
                                     ELSE <<>>))
                       /\ FolderAdvance
                       /\ UNCHANGED <<exit_code, exc>>
                  ELSE IF Caught(res)
                  THEN /\ Emit(<<Log("info", "syncing", id_n, id_f),
                                 Run("rsync", id_n, id_f, res),
                                 Log("error", "rsync_output", id_n, id_f),
                                 Log("error", "skipped_folder", id_n, id_f)>>
                               \o (IF FolderSleeps(res)
                                     THEN <<SleepEv("folders", id_n,
                                                    config.sleep_folders)>>
                                     ELSE <<>>))
                       /\ FolderAdvance
                       /\ UNCHANGED <<exit_code, exc>>
                  ELSE /\ Emit(<<Log("info", "syncing", id_n, id_f),
                                 Run("rsync", id_n, id_f, res)>>)
                       /\ Raise("OSError")
                       /\ UNCHANGED <<id_n, id_f, id_s, node_state>>
    /\ UNCHANGED <<opts, settings_file, which, log_level, debug, foreground,
                   quiet, bin_path, logging_ready, probe_result>>

\* Variant of ServiceDefaults that turns sudo over on a service met again.
ServiceDefaults_Toggle(service) ==
    [service EXCEPT
       !.has = @ \cup {"sudo"},
       !.sudo = IF "sudo" \in service.has THEN ~@ ELSE FALSE]

\* Lines 222-223: service defaults.
ServiceDefaults(service) ==
    [service EXCEPT
       !.has = @ \cup {"sudo"},
       !.sudo = IF "sudo" \in service.has THEN @ ELSE FALSE]

ServiceAdvance ==
    IF id_s < NumConfigured(config.services)
      THEN id_s' = NextItem(id_s) /\ UNCHANGED <<pc, id_n, id_f, node_state>>
      ELSE NextNode(id_n) /\ Reach(id_n, "DONE")

(***************************************************************************)
(* Lines 217-238: one iteration of the service loop.                       *)
(***************************************************************************)
ServiceStep ==
    /\ Running("services")
    /\ \E res \in Outcomes :
         /\ config' = [config EXCEPT !.services[id_s] = ServiceDefaults(@)]
         /\ Ran("service", id_n, id_s)
         /\ IF res = "ok"
               THEN /\ Emit(<<Log("info", "trying_service", id_n, id_s),
                              Run("service", id_n, id_s, res),
                              Log("debug", "command_output", id_n, id_s),
                              Log("info", "service_done", id_n, id_s)>>
                            \o (IF ServiceSleeps(res)
                                  THEN <<SleepEv("services", id_n,
                                                 config.sleep_services)>>
                                  ELSE <<>>))
                    /\ ServiceAdvance
                    /\ UNCHANGED <<exit_code, exc>>
               ELSE IF Caught(res)
               THEN /\ Emit(<<Log("info", "trying_service", id_n, id_s),
                              Run("service", id_n, id_s, res),
                              Log("debug", "command_output", id_n, id_s),
                              Log("error", "check_on_node", id_n, id_s)>>
                            \o (IF ServiceSleeps(res)
                                  THEN <<SleepEv("services", id_n,
                                                 config.sleep_services)>>
                                  ELSE <<>>))
                    /\ ServiceAdvance
                    /\ UNCHANGED <<exit_code, exc>>
               ELSE /\ Emit(<<Log("info", "trying_service", id_n, id_s),
                              Run("service", id_n, id_s, res)>>)
                    /\ Raise("OSError")
                    /\ UNCHANGED <<id_n, id_f, id_s, node_state>>
    /\ UNCHANGED <<opts, settings_file, which, log_level, debug, foreground,
                   quiet, bin_path, logging_ready, probe_result>>

(***************************************************************************)
(* Lines 241-242: end of execution.                                        *)
(***************************************************************************)
EndExecution ==
    /\ Running("end")
    /\ Emit(<<Log("info", "end", 0, 0)>>)
    /\ Exit(ExitOk)
    /\ UNCHANGED <<opts, settings_file, which, log_level, debug, foreground,
                   quiet, config, bin_path, logging_ready, id_n, id_f, id_s,
                   commands, argv, probe_result, node_state>>

Next ==
    \/ LoadSettings
    \/ LogSettings
    \/ NeededBinaries
    \/ StartExecution
    \/ NodeProbe
    \/ FolderSelect
    \/ FolderStep
    \/ ServiceStep
    \/ EndExecution

Spec == Init /\ [][Next]_vars

(***************************************************************************)
(* The same script started with every sequence of up to MaxOpts of the     *)
(* options -d, -f and -q, on a settings file whose nodes all select every  *)
(* folder or whose `nodes` is null.                                        *)
(***************************************************************************)
OptSeqs == UNION { [1..k -> {"d", "f", "q"}] : k \in 0..MaxOpts }

LogDocuments ==
    { Document(TopKeys, FALSE, TRUE,
               [n \in NodeIds |->
                   NodeDef(n, NodeOptional(n), TRUE, Selector("all", <<>>))]),
      Document(TopKeys, TRUE, TRUE, NoNodes) }

InitOpts ==
    /\ opts \in OptSeqs
    /\ settings_file \in
          { [exists |-> TRUE, doc_none |-> FALSE, doc |-> d] :
                d \in LogDocuments }
    /\ which \in [{"ssh", "rsync"} -> BOOLEAN]
    /\ log_level = ParseOpts(DefaultFlags, opts).log_level
    /\ debug = ParseOpts(DefaultFlags, opts).debug
    /\ foreground = ParseOpts(DefaultFlags, opts).foreground
    /\ quiet = ParseOpts(DefaultFlags, opts).quiet
    /\ config = BaseDocument
    /\ bin_path = [ssh |-> <<NoneVal>>, rsync |-> <<NoneVal>>]
    /\ logging_ready = FALSE
    /\ pc = "load"
    /\ id_n = 0 /\ id_f = 0 /\ id_s = 0
    /\ exit_code = NoExit
    /\ exc = ""
    /\ commands = <<>>
    /\ argv = <<>>
    /\ probe_result = [n \in NodeIds |-> "none"]
    /\ node_state = [n \in NodeIds |-> "PENDING"]
    /\ trace = <<>>

SpecOpts == InitOpts /\ [][Next]_vars

(***************************************************************************)
(* Vocabulary of the properties.                                           *)
(***************************************************************************)
\* The document as it was on disk, before any defaulting.
Original == settings_file.doc

\* The items of the commands of one kind run on node n, in the order run.
RECURSIVE ItemsOf(_, _, _)
ItemsOf(cs, kind, n) ==
    IF cs = <<>> THEN <<>>
    ELSE IF Head(cs)[1] = kind /\ Head(cs)[2] = n
           THEN <<Head(cs)[3]>> \o ItemsOf(Tail(cs), kind, n)
           ELSE ItemsOf(Tail(cs), kind, n)

FolderCmds(n) == ItemsOf(commands, "rsync", n)
ServiceCmds(n) == ItemsOf(commands, "service", n)

\* The configured folder ids that occur in the list, in configuration
\* order.
RECURSIVE Intersection(_, _)
Intersection(configured, list) ==
    IF configured = <<>> THEN <<>>
    ELSE (IF InSeq(Head(configured), list) THEN <<Head(configured)>> ELSE <<>>)
         \o Intersection(Tail(configured), list)

IsPrefix(s, t) == Len(s) <= Len(t) /\ \A i \in 1..Len(s) : s[i] = t[i]

Configured(n) == n \in NodeIds /\ n \in DOMAIN config.nodes

\* The node loop's body has been entered for node n and the script is
\* past its folder loop.
FoldersFinished(n) == id_n > n \/ (id_n = n /\ id_s >= 1)

LastCommand == commands[Len(commands)]

IsCmd(e, kind) == e.t = "cmd" /\ e.k = kind
IsSleep(e, kind) == e.t = "sleep" /\ e.k = kind
IsLog(e) == e.t = "log"

\* C1: a node whose probe failed is never the target of a folder transfer
\* or a service command, and right after the failed probe the script is at
\* the next node (or, after the last node, at the end of execution).
SkipIsolation ==
    \A n \in NodeIds :
        probe_result[n] = "failed" =>
          /\ FolderCmds(n) = <<>>
          /\ ServiceCmds(n) = <<>>
          /\ id_n > n
          /\ LastCommand = <<"probe", n, 0>> =>
                \/ pc = (IF n < NumNodes THEN "node" ELSE "end")
                \/ n = NumNodes /\ pc = "exited" /\ exit_code = ExitOk

\* Node 1's probe failed and node 2 was then probed and received a
\* transfer.
SkipIsolationWitness ==
    /\ NumNodes >= 2
    /\ probe_result[1] = "failed"
    /\ probe_result[2] = "ok"
    /\ FolderCmds(2) # <<>>
    /\ FolderCmds(1) = <<>>

\* A command of the current iteration that returned, with exit status 0
\* or not, as opposed to one that could not be run.
Returned(e) == e.t = "cmd" /\ e.res \in {"ok", "nonzero"}

\* trace[i] is followed, before any further command, by a sleep of the
\* loop named kind lasting secs seconds.
SleepFollows(i, kind, secs) ==
    \E j \in (i + 1)..Len(trace) :
        /\ IsSleep(trace[j], kind)
        /\ trace[j].i = secs
        /\ \A k \in (i + 1)..(j - 1) : trace[k].t # "cmd"

\* C2: every folder transfer that returned, successfully or with a
\* non-zero exit, is followed by a sleep of sleep-time-folders seconds
\* before the next command.
FolderPacing ==
    \A i \in 1..Len(trace) :
        IsCmd(trace[i], "rsync") /\ Returned(trace[i]) =>
            SleepFollows(i, "folders", config.sleep_folders)

\* C3: every service command that returned, successfully or with a
\* non-zero exit, is followed by a sleep of sleep-time-services seconds
\* before the next command.
ServicePacing ==
    \A i \in 1..Len(trace) :
        IsCmd(trace[i], "service") /\ Returned(trace[i]) =>
            SleepFollows(i, "services", config.sleep_services)

\* The folders node n's resolved selector picks, in configuration order.
Resolved(n) ==
    Intersection(keys(NumConfigured(config.folders)), config.nodes[n].sel.items)

AllServices == keys(NumConfigured(Original.services))

\* A transfer of the current iteration exited non-zero.
SomeFolderFailed ==
    \E i \in 1..Len(trace) : IsCmd(trace[i], "rsync") /\ trace[i].res = "nonzero"

EveryNodeHasFolders ==
    \A n \in DOMAIN Original.nodes : "folders" \in Original.nodes[n].has

\* C4: when the run is over, a reachable node one of whose transfers exited
\* non-zero has had every folder of its resolved set attempted and, with
\* enable-services, every configured service.
FolderFailureRecovered ==
    pc = "exited" /\ id_n \in NodeIds /\ SomeFolderFailed =>
        /\ FolderCmds(id_n) = Resolved(id_n)
        /\ Original.enable => ServiceCmds(id_n) = AllServices

\* The `folders` value is "all", absent, or not a list.
NotAList(node) == "folders" \notin node.has \/ node.sel.kind # "list"

\* C5: a reachable node whose selector is "all", absent or not a list does
\* not make the run fail at the selector, and once its folder loop is over
\* every configured folder has been attempted on it, in order.
NonListSelectsAll ==
    \A n \in DOMAIN Original.nodes :
        probe_result[n] = "ok" /\ NotAList(Original.nodes[n]) =>
          /\ ~(id_n = n /\ exc = "KeyError")
          /\ FoldersFinished(n) => FolderCmds(n) = keys(NumFolders)

\* C6: on a reachable node whose selector is a list, the transfers
\* attempted are at every moment an initial part of the configured folders
\* that occur in the list, taken in configuration order, and are all of
\* them once the node's folder loop is over; ids of the list that are not
\* configured folders leave the list as it is and raise nothing.
ListSelectsIntersection ==
    \A n \in DOMAIN Original.nodes :
        probe_result[n] = "ok" /\ ~NotAList(Original.nodes[n]) =>
          /\ IsPrefix(FolderCmds(n),
                      Intersection(keys(NumFolders), Original.nodes[n].sel.items))
          /\ FoldersFinished(n) =>
                FolderCmds(n) =
                  Intersection(keys(NumFolders), Original.nodes[n].sel.items)
          /\ config.nodes[n].sel = Original.nodes[n].sel
          /\ ~(id_n = n /\ id_s = 0 /\ exc = "KeyError")

\* A node whose list is in reverse configuration order and a node whose
\* list names an id that is not configured have both finished their folder
\* loops: the first attempted folder 1 before the last folder, the second
\* only the configured folder.
ListSelectsIntersectionWitness ==
    \E n, m \in DOMAIN Original.nodes :
        /\ Original.nodes[n].sel = Selector("list", <<NumFolders, 1>>)
        /\ Original.nodes[m].sel = Selector("list", <<NumFolders + 1, NumFolders>>)
        /\ "folders" \in Original.nodes[n].has
        /\ "folders" \in Original.nodes[m].has
        /\ FoldersFinished(n) /\ FoldersFinished(m)
        /\ FolderCmds(n) = <<1, NumFolders>>
        /\ FolderCmds(m) = <<NumFolders>>

\* The `folders` value is present and is neither "all" nor a list.
Malformed(node) ==
    "folders" \in node.has /\ node.sel.kind \in {"scalar", "null"}

WrongFoldersLogged ==
    \E i \in 1..Len(trace) :
        IsLog(trace[i]) /\ trace[i].k = "wrong_folders" /\ trace[i].lvl = "error"

\* C7: a reachable node whose selector is neither "all" nor a list gets no
\* folder transfer, has an error logged for it once the selector has been
\* looked at, and still gets every service when services are enabled.
MalformedSelectorSkipsFolders ==
    \A n \in DOMAIN Original.nodes :
        probe_result[n] = "ok" /\ Malformed(Original.nodes[n]) =>
          /\ FolderCmds(n) = <<>>
          /\ id_n = n /\ pc # "select" => WrongFoldersLogged
          /\ node_state[n] = "DONE" /\ Original.enable =>
                ServiceCmds(n) = AllServices

\* C8: when the run is over, every node whose probe succeeded has had each
\* configured service attempted exactly once, in configuration order, if
\* enable-services is true; if it is false no service command was run.
ServiceCoverage ==
    /\ ~Original.enable =>
          \A i \in 1..Len(commands) : commands[i][1] # "service"
    /\ pc = "exited" /\ Original.enable /\ EveryNodeHasFolders =>
          \A n \in NodeIds :
              probe_result[n] = "ok" => ServiceCmds(n) = AllServices

\* The script got past start-up: the node loop was entered or found empty.
StartupPassed == id_n >= 1

\* C9: once start-up has passed, the process ends with exit status 0
\* whatever the outcomes of the commands.
BestEffortExit ==
    pc = "exited" /\ StartupPassed /\ EveryNodeHasFolders =>
        exit_code = ExitOk

SettingsFatal == ~settings_file.exists \/ settings_file.doc_none
BinariesFatal == ~which["ssh"] \/ ~which["rsync"]

NoLogEntry == \A i \in 1..Len(trace) : ~IsLog(trace[i])

\* C10: with a missing settings file, a null document, or an unresolved ssh
\* or rsync, the script never gets past the binaries check, runs no
\* command, and ends with exit status 1; with a missing file or a null
\* document it ends before logging is set up and without a log entry.
FatalStartup ==
    /\ SettingsFatal \/ BinariesFatal =>
          /\ pc \in {"load", "logsetup", "binaries", "exited"}
          /\ commands = <<>>
          /\ pc = "exited" => exit_code = ExitFatal
    /\ SettingsFatal =>
          /\ pc \in {"load", "exited"}
          /\ ~logging_ready
          /\ NoLogEntry

\* The settings loaded and ssh was found, rsync was not: the process ended
\* with status 1 after logging was set up.
FatalStartupWitness ==
    /\ ~SettingsFatal
    /\ which["ssh"] /\ ~which["rsync"]
    /\ pc = "exited" /\ exit_code = ExitFatal
    /\ logging_ready /\ ~NoLogEntry
    /\ commands = <<>>

\* The document has no `nodes` key, or has it with a null value.
NodesAbsentOrNull == "nodes" \notin Original.has \/ Original.nodes_null

Logged(level, k) ==
    \E i \in 1..Len(trace) :
        IsLog(trace[i]) /\ trace[i].k = k /\ trace[i].lvl = level

\* Message kinds that mention a folder or a service.
ItemKinds == {"syncing", "rsync_output", "synced", "skipped_folder",
              "wrong_folders", "trying_service", "command_output",
              "service_done", "check_on_node"}

\* C11: with settings and binaries in order and `nodes` absent or null, the
\* script runs no command and logs nothing about a folder or a service, and
\* it ends having logged the no-nodes message at info level, with exit
\* status 0.
NoNodesNoOp ==
    ~SettingsFatal /\ ~BinariesFatal /\ NodesAbsentOrNull =>
        /\ commands = <<>>
        /\ \A i \in 1..Len(trace) : IsLog(trace[i]) => trace[i].k \notin ItemKinds
        /\ pc = "exited" => Logged("info", "no_nodes") /\ exit_code = ExitOk

\* Option o was given on the command line.
Given(o) == InSeq(o, opts)

\* The level handed to basicConfig: the last of the -d and -q options
\* decides, INFO when neither was given.
EffectiveLevel ==
    IF \E i \in 1..Len(opts) :
          opts[i] = "q" /\ \A j \in (i + 1)..Len(opts) : opts[j] # "d"
      THEN "ERROR"
      ELSE IF Given("d") THEN "DEBUG" ELSE "INFO"

\* C12 as stated: whatever the options, every message, of any level, is
\* recorded in the log file.
LogComplete ==
    \A i \in 1..Len(trace) : IsLog(trace[i]) => trace[i].file

\* C12, amended: a message is recorded in the log file exactly when its
\* level reaches the level the options select (errors always, info unless
\* -q decides the level, debug only when -d decides it); the foreground
\* option plays no part.
LogFiltered ==
    \A i \in 1..Len(trace) :
        IsLog(trace[i]) =>
            (trace[i].file <=>
                \/ trace[i].lvl = "error"
                \/ trace[i].lvl = "info" /\ EffectiveLevel # "ERROR"
                \/ trace[i].lvl = "debug" /\ EffectiveLevel = "DEBUG")

\* Started with -d then -q and with -f: the debug flag is set but the level
\* is ERROR; an error message was recorded, an info and a debug message
\* were not.
LogFilteredWitness ==
    /\ Given("f") /\ debug /\ EffectiveLevel = "ERROR"
    /\ \E i, j, k \in 1..Len(trace) :
          /\ IsLog(trace[i]) /\ trace[i].lvl = "error" /\ trace[i].file
          /\ IsLog(trace[j]) /\ trace[j].lvl = "info" /\ ~trace[j].file
          /\ IsLog(trace[k]) /\ trace[k].lvl = "debug" /\ ~trace[k].file

\* C13: a message is echoed on the console exactly when -f was given and
\* the message is an error, or an info message and -q was not given, or a
\* debug message and -d was given.
ConsoleEcho ==
    \A i \in 1..Len(trace) :
        IsLog(trace[i]) =>
            (trace[i].con <=>
                /\ Given("f")
                /\ \/ trace[i].lvl = "error"
                   \/ trace[i].lvl = "info" /\ ~Given("q")
                   \/ trace[i].lvl = "debug" /\ Given("d"))

\* Started with -f, -q and -d: an error and a debug message were echoed, an
\* info message was not.
ConsoleEchoWitness ==
    /\ Given("f") /\ Given("q") /\ Given("d")
    /\ \E i, j, k \in 1..Len(trace) :
          /\ IsLog(trace[i]) /\ trace[i].lvl = "error" /\ trace[i].con
          /\ IsLog(trace[j]) /\ trace[j].lvl = "info" /\ ~trace[j].con
          /\ IsLog(trace[k]) /\ trace[k].lvl = "debug" /\ trace[k].con

\* The place of a command in a node's body: probe, transfers, services.
Phase(kind) == CASE kind = "probe" -> 0 [] kind = "rsync" -> 1 [] OTHER -> 2

\* Command c comes before command d in the order of the configuration:
\* by node, then by phase, then by folder or service.
Before(c, d) ==
    \/ c[2] < d[2]
    \/ c[2] = d[2] /\ Phase(c[1]) < Phase(d[1])
    \/ c[2] = d[2] /\ c[1] = d[1] /\ c[3] < d[3]

Settled(n) == node_state[n] \in {"SKIPPED", "DONE"}

\* C14: the commands run so far are in configuration order, by node, within
\* a node probe then transfers then services, and within these by folder
\* and by service; and every node before one that has had a command is
\* SKIPPED or DONE.
SequentialOrder ==
    /\ \A i, j \in 1..Len(commands) :
          i < j => Before(commands[i], commands[j])
    /\ \A i \in 1..Len(commands) :
          \A n \in NodeIds : n < commands[i][2] => Settled(n)

\* The run is over with status 0 and every node has had its probe, every
\* folder and every service.
SequentialOrderWitness ==
    /\ pc = "exited" /\ exit_code = ExitOk
    /\ Len(commands) = NumNodes * (1 + NumFolders + NumServices)
    /\ \A n \in NodeIds : node_state[n] = "DONE"

\* The node loop has taken node n and run its probe.
Probed(n) == id_n > n \/ (id_n = n /\ pc # "node")

\* No command is run twice, and a configured node has been probed once if
\* the loop has taken it and not at all otherwise.
NoRepeat ==
    /\ \A i, j \in 1..Len(commands) : i # j => commands[i] # commands[j]
    /\ \A n \in DOMAIN Original.nodes :
          ItemsOf(commands, "probe", n) = (IF Probed(n) THEN <<0>> ELSE <<>>)

\* A step leaves the commands of every node that is SKIPPED or DONE as they
\* are, and the node SKIPPED or DONE.
SettledStep ==
    \A n \in NodeIds :
        Settled(n) =>
          /\ node_state'[n] = node_state[n]
          /\ \A k \in {"probe", "rsync", "service"} :
                ItemsOf(commands', k, n) = ItemsOf(commands, k, n)

\* C15: each node is probed once, each (node, folder) and (node, service)
\* pair is attempted at most once, and once a node is SKIPPED or DONE no
\* further command is run on it.
NoRetry == []NoRepeat /\ [][SettledStep]_vars

\* Node 1's probe failed, node 2 had a transfer that exited non-zero, and
\* the run went on to the end without a second attempt at either.
NoRetryWitness ==
    /\ NumNodes >= 2
    /\ pc = "exited" /\ exit_code = ExitOk /\ exc = ""
    /\ probe_result[1] = "failed" /\ node_state[1] = "SKIPPED"
    /\ id_n = NumNodes + 1
    /\ SomeFolderFailed
    /\ ItemsOf(commands, "probe", 1) = <<0>>

\* C16: a run that got past start-up with a non-null `nodes` ends only
\* after every configured node has become SKIPPED or DONE, with the end of
\* execution logged and exit status 0: the sweep never stops part-way.
SweepCompletes ==
    /\ pc = "exited"
    /\ ~SettingsFatal /\ ~BinariesFatal /\ ~NodesAbsentOrNull
    /\ EveryNodeHasFolders
    => /\ \A n \in DOMAIN Original.nodes : Settled(n)
       /\ Logged("info", "end")
       /\ exit_code = ExitOk

\* The error message that reports a failed command of each kind.
FailureNotice(kind) ==
    CASE kind = "probe" -> "connection_failed"
      [] kind = "rsync" -> "skipped_folder"
      [] OTHER -> "check_on_node"

\* C17: a probe, transfer or service command that could not be launched is
\* reported like one that exited non-zero, with the error message of its
\* kind, and does not end the run with an exception.
LaunchFailureOrdinary ==
    \A i \in 1..Len(trace) :
        trace[i].t = "cmd" /\ trace[i].res = "oserror" =>
          /\ exc = ""
          /\ \E j \in (i + 1)..Len(trace) :
                /\ IsLog(trace[j]) /\ trace[j].lvl = "error"
                /\ trace[j].k = FailureNotice(trace[i].k)
                /\ trace[j].n = trace[i].n

\* The entries of the current iteration's log file that are about node n.
FileEntries(n) ==
    { j \in 1..Len(trace) : IsLog(trace[j]) /\ trace[j].file /\ trace[j].n = n }

\* Those that tell the outcome of folder f: synced, or skipped.
OutcomeEntries(n, f) ==
    { j \in FileEntries(n) :
          trace[j].k \in {"synced", "skipped_folder"} /\ trace[j].i = f }

\* The iteration in trace is that of node n.
Window(n) ==
    \E i \in 1..Len(trace) : IsCmd(trace[i], "probe") /\ trace[i].n = n

\* The log file of a node whose probe failed: one error entry, the
\* connection-failed notice, and nothing about a folder or a service.
FailedProbeShape(n) ==
    /\ \E j \in FileEntries(n) :
          /\ trace[j].k = "connection_failed"
          /\ \A k \in FileEntries(n) : trace[k].lvl = "error" => k = j
    /\ \A j \in FileEntries(n) : trace[j].k \notin ItemKinds

\* The log file after a transfer that returned: one outcome entry for the
\* folder, a success at info level after exit 0, a skip at error level
\* after a non-zero exit.
TransferShape(n, i) ==
    \E j \in OutcomeEntries(n, trace[i].i) :
        /\ OutcomeEntries(n, trace[i].i) = {j}
        /\ IF trace[i].res = "ok"
             THEN trace[j].k = "synced" /\ trace[j].lvl = "info"
             ELSE trace[j].k = "skipped_folder" /\ trace[j].lvl = "error"

\* The log file of a reachable node.
ReachableShape(n) ==
    /\ \A i \in 1..Len(trace) :
          IsCmd(trace[i], "rsync") /\ Returned(trace[i]) => TransferShape(n, i)
    /\ FoldersFinished(n) =>
          Cardinality(UNION { OutcomeEntries(n, f) : f \in FolderIds })
            = Len(Resolved(n))

\* C18 as stated: the log file of a node whose probe failed has one error
\* entry, the connection-failed notice, and no folder or service entry;
\* that of a reachable node has one outcome entry for each transfer that
\* returned, and as many outcome entries as the node has selected folders
\* once its folder loop is over.
LogShape ==
    \A n \in DOMAIN Original.nodes :
        Window(n) =>
          /\ probe_result[n] = "failed" => FailedProbeShape(n)
          /\ probe_result[n] = "ok" => ReachableShape(n)

\* C18, amended: the same, the part about reachable nodes when the log
\* level is INFO or DEBUG; when -q has set it to ERROR the file has an
\* outcome entry, the skip notice, for the transfers that exited non-zero
\* and none for those that exited 0.
LogShapeAtLevel ==
    \A n \in DOMAIN Original.nodes :
        Window(n) =>
          /\ probe_result[n] = "failed" => FailedProbeShape(n)
          /\ probe_result[n] = "ok" /\ EffectiveLevel # "ERROR" =>
                ReachableShape(n)
          /\ probe_result[n] = "ok" /\ EffectiveLevel = "ERROR" =>
                \A i \in 1..Len(trace) :
                    IsCmd(trace[i], "rsync") /\ Returned(trace[i]) =>
                        IF trace[i].res = "ok"
                          THEN OutcomeEntries(n, trace[i].i) = {}
                          ELSE TransferShape(n, i)

\* Without -q: node 1's probe failed; node 2 is past its folder loop with
\* a transfer that exited 0 and one that exited non-zero.
LogShapeAtLevelWitness ==
    /\ NumNodes >= 2 /\ NumFolders >= 2
    /\ EffectiveLevel = "INFO"
    /\ probe_result[1] = "failed"
    /\ Window(2) /\ probe_result[2] = "ok" /\ FoldersFinished(2)
    /\ SomeFolderFailed
    /\ \E i \in 1..Len(trace) : IsCmd(trace[i], "rsync") /\ trace[i].res = "ok"
    /\ Len(Resolved(2)) = NumFolders

\* What the original configuration says a command on node n is to use.
WantedPort(n) ==
    IF "ssh-port" \in Original.nodes[n].has THEN Original.nodes[n].port
    ELSE DefaultSshPort

WantedUser(n) ==
    IF "user" \in Original.nodes[n].has THEN Original.nodes[n].user
    ELSE CurrentUser

WantedDest(f) ==
    IF "dest" \in Original.folders[f].has THEN Original.folders[f].dest
    ELSE Original.folders[f].path

WantedOptions(f) ==
    IF "rsync-options" \notin Original.folders[f].has
         \/ Original.folders[f].opts = NoneVal
      THEN <<>>
      ELSE <<Original.folders[f].opts>>

WantedSudo(s) ==
    "sudo" \in Original.services[s].has /\ Original.services[s].sudo

\* C19: every command run was built from the node's address, from its
\* ssh-port and user if given and from 22 and the invoking user if not; a
\* transfer from the folder's path, from its dest if given and its path if
\* not, and from its rsync-options if given and not null and no option if
\* not; a service command with sudo only if the service has a true sudo.
\* No value given in the configuration is changed by the defaulting.
DefaultsBeforeUse ==
    /\ \A i \in 1..Len(commands) :
          LET kind == commands[i][1]
              n == commands[i][2]
              item == commands[i][3]
          IN /\ argv[i].address = Original.nodes[n].address
             /\ argv[i].port = WantedPort(n)
             /\ argv[i].user = WantedUser(n)
             /\ kind = "rsync" =>
                   /\ argv[i].src = Original.folders[item].path
                   /\ argv[i].dest = WantedDest(item)
                   /\ argv[i].opts = WantedOptions(item)
             /\ kind = "service" =>
                   /\ argv[i].sudo = WantedSudo(item)
                   /\ argv[i].method = Original.services[item].method
                   /\ argv[i].name = Original.services[item].name
    /\ pc \notin {"load", "logsetup"} =>
          /\ \A n \in DOMAIN Original.nodes :
                /\ "ssh-port" \in Original.nodes[n].has =>
                      config.nodes[n].port = Original.nodes[n].port
                /\ "user" \in Original.nodes[n].has =>
                      config.nodes[n].user = Original.nodes[n].user
          /\ \A f \in DOMAIN Original.folders :
                /\ "dest" \in Original.folders[f].has =>
                      config.folders[f].dest = Original.folders[f].dest
                /\ "rsync-options" \in Original.folders[f].has
                     /\ Original.folders[f].opts # NoneVal =>
                      config.folders[f].opts = Original.folders[f].opts
          /\ \A sv \in DOMAIN Original.services :
                "sudo" \in Original.services[sv].has =>
                    config.services[sv].sudo = Original.services[sv].sudo

\* The run is over and every node is DONE: node 1, without ssh-port and
\* user, and node 2, with both, have each had folder 1 (no dest, no
\* options), folder 2 (dest, null options), service 1 (no sudo) and
\* service 2 (sudo).
DefaultsBeforeUseWitness ==
    /\ NumNodes >= 2 /\ NumFolders >= 2 /\ NumServices >= 2
    /\ pc = "exited"
    /\ \A n \in NodeIds : node_state[n] = "DONE"
    /\ \A n \in {1, 2} :
          /\ {1, 2} \subseteq { FolderCmds(n)[i] : i \in 1..Len(FolderCmds(n)) }
          /\ {1, 2} \subseteq { ServiceCmds(n)[i] : i \in 1..Len(ServiceCmds(n)) }
    /\ \E i, j \in 1..Len(argv) :
          /\ argv[i].port = DefaultSshPort /\ argv[i].user = CurrentUser
          /\ argv[j].port # DefaultSshPort /\ argv[j].user # CurrentUser

\* The commands run on node n, each with what it was built from, in the
\* order run.
RECURSIVE Attempts(_, _, _)
Attempts(cs, as, n) ==
    IF cs = <<>> THEN <<>>
    ELSE (IF Head(cs)[2] = n
            THEN <<[kind |-> Head(cs)[1], item |-> Head(cs)[3],
                    args |-> Head(as)]>>
            ELSE <<>>)
         \o Attempts(Tail(cs), Tail(as), n)

\* The command of one kind on node n and folder or service i, as the
\* original configuration and the binaries found determine it.
Planned(kind, n, i) ==
    [kind |-> kind, item |-> i,
     args |->
       [bin |-> Which(IF kind = "rsync" THEN "rsync" ELSE "ssh"),
        port |-> WantedPort(n),
        user |-> WantedUser(n),
        address |-> Original.nodes[n].address,
        opts |-> IF kind = "rsync" THEN WantedOptions(i) ELSE <<>>,
        src |-> IF kind = "rsync" THEN Original.folders[i].path ELSE <<>>,
        dest |-> IF kind = "rsync" THEN WantedDest(i) ELSE <<>>,
        sudo |-> IF kind = "service" THEN WantedSudo(i) ELSE FALSE,
        method |-> IF kind = "service" THEN Original.services[i].method ELSE "",
        name |-> IF kind = "service" THEN Original.services[i].name ELSE <<>>]]

\* The folders the original selector of node n picks.
PlannedFolders(n) ==
    IF NotAList(Original.nodes[n])
      THEN keys(NumConfigured(Original.folders))
      ELSE Intersection(keys(NumConfigured(Original.folders)),
                        Original.nodes[n].sel.items)

PlannedServices == IF Original.enable THEN AllServices ELSE <<>>

\* All that is to be run on node n when its probe succeeds.
Plan(n) ==
    <<Planned("probe", n, 0)>>
    \o [i \in 1..Len(PlannedFolders(n)) |->
           Planned("rsync", n, PlannedFolders(n)[i])]
    \o [i \in 1..Len(PlannedServices) |->
           Planned("service", n, PlannedServices[i])]

\* C20: the commands run on a node, with everything they are built from,
\* are at every moment an initial part of what the original configuration
\* alone lays down for that node (the probe alone if the probe failed) and
\* all of it once the node is SKIPPED or DONE, whatever was written into
\* the shared configuration for the nodes before it and however their
\* commands ended.
NodeIndependence ==
    \A n \in DOMAIN Original.nodes :
        LET done == Attempts(commands, argv, n)
            plan == IF probe_result[n] = "failed"
                      THEN <<Planned("probe", n, 0)>> ELSE Plan(n)
        IN /\ IsPrefix(done, plan)
           /\ probe_result[n] = "none" <=> done = <<>>
           /\ Settled(n) => done = plan

\* Nodes 1 and 2 are both DONE, with different selections, and have had a
\* folder and a service in common: node 2 met both with the defaults
\* already written in for node 1.
NodeIndependenceWitness ==
    /\ NumNodes >= 2
    /\ node_state[1] = "DONE" /\ node_state[2] = "DONE"
    /\ \E f \in FolderIds : InSeq(f, FolderCmds(1)) /\ InSeq(f, FolderCmds(2))
    /\ \E sv \in ServiceIds : InSeq(sv, ServiceCmds(1)) /\ InSeq(sv, ServiceCmds(2))
    /\ Len(FolderCmds(1)) # Len(FolderCmds(2))

====
